---- MODULE Spec2Model ----
(***************************************************************************)
(* Model of iot_data_generator.py: the synthetic data generator            *)
(* (IoTDataGenerator), the background generation run of MainWindow with    *)
(* its wx.CallAfter dispatch queue, the JSON / CSV exports and the         *)
(* descriptive statistics dialog.                                          *)
(*                                                                         *)
(* Numbers: a float reading is held in thousandths before rounding and in  *)
(* hundredths after round(x, 2).  A date string '%Y-%m-%d' is the tuple    *)
(* <<year, month, day>>, a time string '%H:%M:%S' the tuple <<h, m, s>>.   *)
(***************************************************************************)
EXTENDS Integers, Sequences, FiniteSets, TLC

VARIABLES
    \* ---- the random module ----
    tape,             \* the cyclic stream of random.random() results
    rand_pos,         \* results consumed so far, modulo the length of the tape
    \* ---- the Faker instance ----
    fake,             \* the cyclic stream of what Faker draws, one entry a user
    fake_pos,         \* entries consumed so far, modulo the length of the stream
    \* ---- one call of an IoTDataGenerator method ----
    g_start_date,     \* argument start_date
    g_num_records,    \* argument num_records
    g_pc,             \* "call" before the call, "returned" / "raised" after it
                      \* ("call_users" / "returned_users": generate_user_data)
    g_result,         \* the returned list
    \* ---- MainWindow and its background generation threads ----
    data,                    \* self.data: 0 for None, else the id of a list object
    lists,                   \* the list objects alive: id -> sequence of user dicts
    generation_in_progress,  \* self.generation_in_progress
    stats_menu_enabled,      \* GetMenuBar().EnableTop(1, ...)
    status_text,             \* the status bar
    progress_label,          \* self.progress_label
    data_info,               \* self.data_info
    grid,                    \* rows of the preview grid
    msgbox,                  \* the message box the last interface step showed
    stats_text,              \* the StatisticsDialog text the last interface step showed
    file,                    \* the file the last interface step wrote
    queue,                   \* pending wx.CallAfter calls, oldest first
    threads,                 \* generation threads: run number -> [pc, list, i]
    runs,                    \* generation threads started so far
    ui,                      \* the interface thread: [pc, list, i, count, out]
    \* ---- the plot windows ----
    frames,                  \* PlotFrame objects: number -> frame record
    plots,                   \* PlotFrame objects created so far
    current_plot_frame,      \* self.current_plot_frame: 0 for None, else a number
    \* ---- history ----
    seen,                    \* history: the values self.data has had since the
                             \* running export started to read it
    before                   \* history: what self.data was when the latest
                             \* generation run was started

gvars == <<g_start_date, g_num_records, g_pc, g_result>>

\* the interface state of MainWindow
widgets == <<generation_in_progress, stats_menu_enabled, status_text,
             progress_label, data_info, grid, msgbox, stats_text>>

\* the plot windows
pvars == <<frames, plots, current_plot_frame>>

mvars == <<data, lists, generation_in_progress, stats_menu_enabled, status_text,
           progress_label, data_info, grid, msgbox, stats_text, file, queue,
           threads, runs, ui, frames, plots, current_plot_frame, seen, before>>

rvars == <<tape, rand_pos, fake, fake_pos>>

vars == <<tape, rand_pos, fake, fake_pos, g_start_date, g_num_records, g_pc, g_result,
          data, lists, generation_in_progress, stats_menu_enabled, status_text,
          progress_label, data_info, grid, msgbox, stats_text, file, queue,
          threads, runs, ui, frames, plots, current_plot_frame, seen, before>>

----------------------------------------------------------------------------
(* Bounds of the model *)

\* longest reading sequence asked of one generator call
MaxRecords == 5
\* length of the cyclic tape of random() results
TapeLen == 4
\* random() results are the fractions r / RandomDen
RandomDen == 2000
\* generation runs started in one behaviour
MaxRuns == 2
\* plot windows opened in one behaviour
MaxPlots == 2
\* users per run (1000 in the application)
NumUsers == 2
\* readings per user (1000 in the application): more than a day of them
NumRecords == 5
\* data rows a CSV export writes at most (10000 in the application)
max_records == 3

----------------------------------------------------------------------------
(* random.random() and random.uniform(a, b) = a + (b - a) * random() *)

\* the sampled results of random(): 0, the two smallest positive ones, and the
\* one so close to 1 that a + (b - a) * random() rounds to b
RandomSamples == {0, 1, 2, RandomDen}

Tapes == [1..TapeLen -> RandomSamples]

\* the n-th (0-based) random() result of a stream
random(rs, n) == rs[(n % Len(rs)) + 1]

\* mutant of uniform: b * random() in place of (b - a) * random()
uniform_NoOffset(a, b, r) == a * 1000 + (b * 1000 * r) \div RandomDen

\* random.uniform(a, b), a and b whole numbers, result in thousandths
uniform(a, b, r) == a * 1000 + ((b - a) * 1000 * r) \div RandomDen

\* an index below n drawn with the result r: floor(random() * n), random() < 1
randbelow(n, r) ==
    LET k == (n * r) \div RandomDen IN IF k >= n THEN n - 1 ELSE k

\* random.randint(a, b)
randint(a, b, r) == a + randbelow(b - a + 1, r)

\* random.choice(seq)
choice(seq, r) == seq[randbelow(Len(seq), r) + 1]

\* round(x, 2) of a float held in thousandths: hundredths, ties to even
round2(x) ==
    LET q == x \div 10
        r == x % 10
    IN  IF r < 5 THEN q
        ELSE IF r > 5 THEN q + 1
        ELSE IF q % 2 = 0 THEN q ELSE q + 1

----------------------------------------------------------------------------
(* datetime: strptime, strftime, + timedelta(hours=6) *)

IsLeap(y) == (y % 4 = 0) /\ ((y % 100 # 0) \/ (y % 400 = 0))

DaysInMonth(y, m) ==
    IF m = 2 THEN (IF IsLeap(y) THEN 29 ELSE 28)
    ELSE IF m \in {4, 6, 9, 11} THEN 30 ELSE 31

\* datetime.strptime(start_date, '%Y-%m-%d'): midnight of that day
strptime(date_str) ==
    [year |-> date_str[1], month |-> date_str[2], day |-> date_str[3],
     hour |-> 0, minute |-> 0, second |-> 0]

\* current_date.strftime('%Y-%m-%d')
strftime_date(dt) == <<dt.year, dt.month, dt.day>>

\* current_date.strftime('%H:%M:%S')
strftime_time(dt) == <<dt.hour, dt.minute, dt.second>>

\* the day after (year, month, day)
NextDay(dt) ==
    IF dt.day < DaysInMonth(dt.year, dt.month)
    THEN [dt EXCEPT !.day = dt.day + 1]
    ELSE IF dt.month < 12
         THEN [dt EXCEPT !.day = 1, !.month = dt.month + 1]
         ELSE [dt EXCEPT !.day = 1, !.month = 1, !.year = dt.year + 1]

\* hours of the step of the clock, timedelta(hours=6)
StepHours == 6

\* mutant of AddStep: the hour wraps without carrying into the day
AddStep_NoCarry(dt) == [dt EXCEPT !.hour = (dt.hour + StepHours) % 24]

\* current_date + timedelta(hours=6)
AddStep(dt) ==
    IF dt.hour + StepHours < 24
    THEN [dt EXCEPT !.hour = dt.hour + StepHours]
    ELSE NextDay([dt EXCEPT !.hour = dt.hour + StepHours - 24])

\* datetime.MAXYEAR: a datetime past it raises OverflowError
MAXYEAR == 9999

----------------------------------------------------------------------------
(* IoTDataGenerator.generate_sensor_data_for_user *)

\* mutant of RoomValue: the difference is added
RoomValue_Added(outside, diff) == outside + diff

\* mutant of RoomValue: the difference is taken twice
RoomValue_Twice(outside, diff) == outside - 2 * diff

\* room value: outside value minus the drawn difference
RoomValue(outside, diff) == outside - diff

\* the reading appended by an iteration of the loop that finds the random
\* stream rs at position n
Reading(current_date, rs, n) ==
    LET outside_temp     == uniform(70, 95, random(rs, n))
        temp_diff        == uniform(0, 10, random(rs, n + 1))
        room_temp        == RoomValue(outside_temp, temp_diff)
        outside_humidity == uniform(50, 95, random(rs, n + 2))
        humidity_diff    == uniform(0, 10, random(rs, n + 3))
        room_humidity    == RoomValue(outside_humidity, humidity_diff)
    IN  [date |-> strftime_date(current_date),
         time |-> strftime_time(current_date),
         outside_temperature |-> round2(outside_temp),
         outside_humidity    |-> round2(outside_humidity),
         room_temperature    |-> round2(room_temp),
         room_humidity       |-> round2(room_humidity)]

RECURSIVE SensorLoop(_, _, _, _, _, _)
\* the for loop over range(num_records), from iteration k on
SensorLoop(current_date, rs, pos, num_records, k, sensor_data) ==
    IF k >= num_records
    THEN [raised |-> FALSE, sensor_data |-> sensor_data]
    ELSE LET next == AddStep(current_date)
         IN  IF next.year > MAXYEAR
             THEN [raised |-> TRUE, sensor_data |-> <<>>]
             ELSE SensorLoop(next, rs, pos, num_records, k + 1,
                             Append(sensor_data,
                                    Reading(current_date, rs, pos + 4 * k)))

\* mutant of generate_sensor_data_for_user: a count that is not positive is
\* refused with an exception
generate_sensor_data_for_user_Refusing(start_date, num_records, rs, pos) ==
    IF num_records <= 0
    THEN [raised |-> TRUE, sensor_data |-> <<>>]
    ELSE SensorLoop(strptime(start_date), rs, pos, num_records, 0, <<>>)

\* generate_sensor_data_for_user(start_date, num_records), called with the
\* random stream rs at position pos
generate_sensor_data_for_user(start_date, num_records, rs, pos) ==
    SensorLoop(strptime(start_date), rs, pos, num_records, 0, <<>>)

----------------------------------------------------------------------------
(* IoTDataGenerator.generate_user_data *)

\* what Faker draws for one user: first_name, last_name, user_name, address
\* (newlines already replaced by ', ') and email
Ann ==
    [firstname |-> "Ann", lastname |-> "Lee", username |-> "alee",
     address |-> "1 Elm St, Ayr, NY 10001", email |-> "ann@example.org"]

Bob ==
    [firstname |-> "Bob", lastname |-> "Ray", username |-> "bray",
     address |-> "2200 North Meadowbrook Boulevard Suite 410, Port Jo, CA 90001",
     email |-> "bob@example.com"]

\* the streams of the Faker instance of the application
FakerStreams == { <<Ann, Bob>>, <<Bob, Bob, Ann>> }

\* the user dict appended by iteration k (1-based) of the loop, with the
\* Faker stream fs at position fpos and the random stream rs at position pos
NewUser(fs, fpos, rs, pos, k) ==
    LET drawn == fs[((fpos + k - 1) % Len(fs)) + 1]
    IN  [firstname |-> drawn.firstname, lastname |-> drawn.lastname,
         age |-> randint(18, 80, random(rs, pos + 2 * (k - 1))),
         gender |-> choice(<<"Male", "Female">>, random(rs, pos + 2 * (k - 1) + 1)),
         username |-> drawn.username, address |-> drawn.address,
         email |-> drawn.email, sensor_data |-> <<>>]

\* generate_user_data(num_users)
generate_user_data(num_users, fs, fpos, rs, pos) ==
    [k \in 1..num_users |-> NewUser(fs, fpos, rs, pos, k)]

----------------------------------------------------------------------------
(* MainWindow: state after __init__ *)

\* the arguments generate_data_thread leaves to their defaults
DefaultStartDate == <<2015, 1, 1>>

\* a stream that repeats four results
Pattern(p) == [k \in 1..TapeLen |-> p[((k - 1) % 4) + 1]]

\* the random streams of the runs of the application
AppTapes ==
    { Pattern(<<1, RandomDen, RandomDen, 1>>), Pattern(<<RandomDen, 0, 0, 2>>) }

Idle == [pc |-> "idle", list |-> 0, i |-> 0, count |-> 0, out |-> <<>>]

Unborn == [pc |-> "unborn", list |-> 0, i |-> 0]

NoBox == <<"">>

NoText == <<"">>

NoFile == [kind |-> "none", content |-> <<>>]

\* zoom levels are held in hundredths: 100 is 1.0
ZoomStep == 25
MinZoom == 25
MaxZoom == 500

\* no PlotFrame object yet
NoFrame ==
    [st |-> "none", pc |-> "none", list |-> 0, i |-> 0,
     found |-> FALSE, plot_ready |-> FALSE, zoom_level |-> 100, zoom_label |-> 100,
     last |-> "none"]

\* a PlotFrame whose window was closed and destroyed: nothing of it acts again
Closed == [NoFrame EXCEPT !.st = "closed"]

MainInit ==
    /\ data = 0
    /\ lists = <<>>
    /\ generation_in_progress = FALSE
    /\ stats_menu_enabled = TRUE
    /\ status_text = <<"Ready">>
    /\ progress_label = <<"">>
    /\ data_info = <<"No data generated yet.">>
    /\ grid = <<>>
    /\ msgbox = NoBox
    /\ stats_text = NoText
    /\ file = NoFile
    /\ queue = <<>>
    /\ threads = [t \in 1..MaxRuns |-> Unborn]
    /\ runs = 0
    /\ ui = Idle
    /\ frames = [f \in 1..MaxPlots |-> NoFrame]
    /\ plots = 0
    /\ current_plot_frame = 0
    /\ seen = {}
    /\ before = [none |-> TRUE, users |-> <<>>]

\* what a step of the interface thread shows and writes: a message box, the
\* text of a statistics dialog, a file (each is gone with the next step: the
\* boxes and the dialog are modal and destroyed when dismissed)
Outputs(box, text, f) ==
    /\ msgbox' = box
    /\ stats_text' = text
    /\ file' = f

\* the list objects something still refers to, the plot windows being fr
RootsWith(d, th, u, fr) ==
    ({d, u.list} \cup {th[t].list : t \in DOMAIN th}
                 \cup {fr[f].list : f \in DOMAIN fr}) \ {0}

\* the list objects something still refers to
Roots(d, th, u) == RootsWith(d, th, u, frames)

\* the heap without the list objects nothing refers to any more
Keep(h, roots) == [l \in (DOMAIN h) \cap roots |-> h[l]]

\* "not self.data": None or an empty list
NotData(d, h) == d = 0 \/ h[d] = <<>>

RECURSIVE total_sensors(_)
\* sum(len(user['sensor_data']) for user in users)
total_sensors(users) ==
    IF users = <<>> THEN 0
    ELSE Len(Head(users).sensor_data) + total_sensors(Tail(users))

\* str(x) / repr(x) of a float held in hundredths: shortest decimal form
float_str(x) ==
    [int |-> x \div 100,
     frac |-> IF x % 10 = 0 THEN <<(x % 100) \div 10>>
              ELSE <<(x % 100) \div 10, x % 10>>]

RECURSIVE int_str(_)
\* str(n) of an int that is not negative: its decimal digits
int_str(n) == IF n < 10 THEN <<n>> ELSE Append(int_str(n \div 10), n % 10)

----------------------------------------------------------------------------
(* MainWindow.on_generate *)

\* the generation threads that run
LiveThreads == {t \in DOMAIN threads : threads[t].pc \notin {"unborn", "exited"}}

\* a frame that is open
IsOpen(fr, f) == f # 0 /\ fr[f].st = "open"

\* "if self.current_plot_frame: self.current_plot_frame.Close();
\* self.current_plot_frame = None": the proxy of a destroyed window is false
ClosePlot ==
    /\ frames' = IF IsOpen(frames, current_plot_frame)
                 THEN [frames EXCEPT ![current_plot_frame] = Closed]
                 ELSE frames
    /\ current_plot_frame' = IF IsOpen(frames, current_plot_frame)
                             THEN 0 ELSE current_plot_frame
    /\ lists' = Keep(lists, RootsWith(data, threads, ui, frames'))

\* mutant of on_generate: generation_in_progress is not looked at
on_generate_NoGuard ==
    /\ ui.pc = "idle"
    /\ runs < MaxRuns
    /\ ClosePlot
    /\ ui' = [Idle EXCEPT !.pc = "confirm"]
    /\ Outputs(NoBox, NoText, NoFile)
    /\ UNCHANGED <<rvars, data, generation_in_progress,
                   stats_menu_enabled, status_text, progress_label, data_info,
                   grid, queue, threads, runs, plots>>

\* the menu item is chosen: rejected while a run is in progress, else an open
\* plot window is closed and the confirmation dialog opens (at most MaxRuns
\* times)
on_generate ==
    /\ ui.pc = "idle"
    /\ IF generation_in_progress
       THEN /\ Outputs(<<"Data generation is already in progress!">>, NoText, NoFile)
            /\ UNCHANGED <<ui, lists, frames, current_plot_frame>>
       ELSE /\ runs < MaxRuns
            /\ ClosePlot
            /\ ui' = [Idle EXCEPT !.pc = "confirm"]
            /\ Outputs(NoBox, NoText, NoFile)
    /\ UNCHANGED <<rvars, data, generation_in_progress,
                   stats_menu_enabled, status_text, progress_label, data_info,
                   grid, queue, threads, runs, plots>>

\* mutant of confirm_yes: the Statistics menu is left enabled
confirm_yes_MenuOn ==
    /\ ui.pc = "confirm"
    /\ generation_in_progress' = TRUE
    /\ status_text' = <<"Generating data... Please wait.">>
    /\ progress_label' = <<"Starting data generation...">>
    /\ data_info' = <<"Data generation in progress...">>
    /\ runs' = runs + 1
    /\ threads' = [threads EXCEPT ![runs + 1] = [Unborn EXCEPT !.pc = "start"]]
    /\ ui' = Idle
    /\ Outputs(NoBox, NoText, NoFile)
    /\ UNCHANGED <<rvars, data, lists, grid, queue, stats_menu_enabled>>

\* the dialog answers wx.ID_YES: the flag is set, the Statistics menu is
\* disabled and the thread is started
confirm_yes ==
    /\ ui.pc = "confirm"
    /\ generation_in_progress' = TRUE
    /\ status_text' = <<"Generating data... Please wait.">>
    /\ progress_label' = <<"Starting data generation...">>
    /\ data_info' = <<"Data generation in progress...">>
    /\ stats_menu_enabled' = FALSE
    /\ runs' = runs + 1
    /\ threads' = [threads EXCEPT ![runs + 1] = [Unborn EXCEPT !.pc = "start"]]
    /\ ui' = Idle
    /\ Outputs(NoBox, NoText, NoFile)
    /\ UNCHANGED <<rvars, data, lists, grid, queue>>

\* the dialog answers No
confirm_no ==
    /\ ui.pc = "confirm"
    /\ ui' = Idle
    /\ Outputs(NoBox, NoText, NoFile)
    /\ UNCHANGED <<rvars, data, lists, generation_in_progress,
                   stats_menu_enabled, status_text, progress_label, data_info,
                   grid, queue, threads, runs>>

----------------------------------------------------------------------------
(* MainWindow.generate_data_thread, run by thread t *)

\* wx.CallAfter(fn, arg)
CallAfter(q, fn, arg) == Append(q, [fn |-> fn, arg |-> arg])

\* first statement of the try block
thread_start(t) ==
    /\ threads[t].pc = "start"
    /\ queue' = CallAfter(queue, "SetLabel", <<"Generating 1000 user records...">>)
    /\ threads' = [threads EXCEPT ![t].pc = "users"]
    /\ UNCHANGED <<rvars, data, lists, widgets, file, runs, ui>>

\* self.data = generate_user_data(1000), then the second label is posted
thread_users(t) ==
    /\ threads[t].pc = "users"
    /\ data' = t
    /\ lists' = Keep([l \in (DOMAIN lists) \cup {t} |->
                        IF l = t
                        THEN generate_user_data(NumUsers, fake, fake_pos,
                                                tape, rand_pos)
                        ELSE lists[l]],
                     Roots(t, threads, ui))
    /\ rand_pos' = (rand_pos + 2 * NumUsers) % TapeLen
    /\ fake_pos' = (fake_pos + NumUsers) % Len(fake)
    /\ queue' = CallAfter(queue, "SetLabel",
                          <<"1000 user records created. Generating sensor data...">>)
    /\ threads' = [threads EXCEPT ![t].pc = "loop"]
    /\ UNCHANGED <<tape, fake, widgets, file, runs, ui>>

\* total_users = len(self.data); for i, user in enumerate(self.data)
thread_loop(t) ==
    /\ threads[t].pc = "loop"
    /\ threads' = [threads EXCEPT ![t] = [pc |-> "sensors", list |-> data, i |-> 0]]
    /\ UNCHANGED <<rvars, data, lists, widgets, file, queue, runs, ui>>

\* i % 10 == 0: a progress message is posted
ProgressEvery == 10

\* one iteration of the loop: the user's readings are generated and attached
thread_sensors(t) ==
    LET th == threads[t]
        total_users == Len(lists[th.list])
        res == generate_sensor_data_for_user(DefaultStartDate, NumRecords,
                                             tape, rand_pos)
    IN  /\ th.pc = "sensors"
        /\ th.i < total_users
        /\ ~res.raised
        /\ lists' = [lists EXCEPT ![th.list][th.i + 1].sensor_data = res.sensor_data]
        /\ rand_pos' = (rand_pos + 4 * NumRecords) % TapeLen
        /\ queue' = IF th.i % ProgressEvery = 0
                    THEN CallAfter(queue, "update_progress",
                                   <<"Generated sensor data for users", th.i, total_users>>)
                    ELSE queue
        /\ threads' = [threads EXCEPT ![t].i = th.i + 1]
        /\ UNCHANGED <<tape, fake, fake_pos, data, widgets, file, runs, ui>>

\* mutant of thread_complete: the loop stops one user short
thread_complete_Early(t) ==
    LET th == threads[t]
    IN  /\ th.pc = "sensors"
        /\ th.i >= Len(lists[th.list]) - 1
        /\ queue' = CallAfter(queue, "data_generation_complete", <<>>)
        /\ threads' = [threads EXCEPT ![t] = [Unborn EXCEPT !.pc = "exited"]]
        /\ lists' = Keep(lists, Roots(data, threads', ui))
        /\ UNCHANGED <<rvars, data, widgets, file, runs, ui>>

\* mutant of thread_complete: the thread clears the flag and enables the
\* menu itself
thread_complete_Direct(t) ==
    LET th == threads[t]
    IN  /\ th.pc = "sensors"
        /\ th.i >= Len(lists[th.list])
        /\ generation_in_progress' = FALSE
        /\ stats_menu_enabled' = TRUE
        /\ queue' = CallAfter(queue, "data_generation_complete", <<>>)
        /\ threads' = [threads EXCEPT ![t] = [Unborn EXCEPT !.pc = "exited"]]
        /\ lists' = Keep(lists, Roots(data, threads', ui))
        /\ UNCHANGED <<rvars, data, status_text, progress_label, data_info,
                       grid, msgbox, stats_text, file, runs, ui>>

\* the loop is over: data_generation_complete is posted and the thread ends
thread_complete(t) ==
    LET th == threads[t]
    IN  /\ th.pc = "sensors"
        /\ th.i >= Len(lists[th.list])
        /\ queue' = CallAfter(queue, "data_generation_complete", <<>>)
        /\ threads' = [threads EXCEPT ![t] = [Unborn EXCEPT !.pc = "exited"]]
        /\ lists' = Keep(lists, Roots(data, threads', ui))
        /\ UNCHANGED <<rvars, data, widgets, file, runs, ui>>

\* mutant of thread_except: the except clause swallows the exception
thread_except_Silent(t) ==
    /\ threads[t].pc \in {"users", "sensors"}
    /\ threads[t].pc = "sensors" => threads[t].i < Len(lists[threads[t].list])
    /\ threads' = [threads EXCEPT ![t] = [Unborn EXCEPT !.pc = "exited"]]
    /\ lists' = Keep(lists, Roots(data, threads', ui))
    /\ UNCHANGED <<rvars, data, widgets, file, queue, runs, ui>>

\* an exception is raised by generate_user_data or while a user's readings
\* are generated: the except clause posts data_generation_error
thread_except(t) ==
    /\ threads[t].pc \in {"users", "sensors"}
    /\ threads[t].pc = "sensors" => threads[t].i < Len(lists[threads[t].list])
    /\ queue' = CallAfter(queue, "data_generation_error", <<"str(e)">>)
    /\ threads' = [threads EXCEPT ![t] = [Unborn EXCEPT !.pc = "exited"]]
    /\ lists' = Keep(lists, Roots(data, threads', ui))
    /\ UNCHANGED <<rvars, data, widgets, file, runs, ui>>
----------------------------------------------------------------------------
(* The calls the interface thread runs from the wx.CallAfter queue *)

\* the cell of the address column: at most 50 characters, then "..."
preview_address(address) ==
    IF Len(address) > 50 THEN SubSeq(address, 1, 50) \o "..." ELSE address

\* the grid row of a user: the identity and the first reading
preview_row(user) ==
    LET sensor == user.sensor_data[1]
    IN  <<user.firstname, user.lastname, int_str(user.age), user.gender,
          user.username, preview_address(user.address), user.email,
          sensor.date, sensor.time,
          float_str(sensor.outside_temperature), float_str(sensor.outside_humidity),
          float_str(sensor.room_temperature), float_str(sensor.room_humidity)>>

\* the users shown in the preview at most
PreviewCount == 10

RECURSIVE preview_rows(_, _, _)
\* rows of users i .. preview_count that have a reading
preview_rows(users, i, preview_count) ==
    IF i > preview_count THEN <<>>
    ELSE IF users[i].sensor_data # <<>>
         THEN <<preview_row(users[i])>> \o preview_rows(users, i + 1, preview_count)
         ELSE preview_rows(users, i + 1, preview_count)

Min(a, b) == IF a <= b THEN a ELSE b

\* show_data_preview: the grid after the call
show_data_preview(users, old_grid) ==
    IF users = <<>> THEN old_grid
    ELSE preview_rows(users, 1, Min(PreviewCount, Len(users)))

\* progress_label.SetLabel / update_progress
run_set_label(msg) ==
    /\ progress_label' = msg
    /\ msgbox' = NoBox
    /\ UNCHANGED <<generation_in_progress, stats_menu_enabled, status_text,
                   data_info, grid>>

data_generation_complete ==
    /\ generation_in_progress' = FALSE
    /\ status_text' = <<"Data generation complete">>
    /\ progress_label' = <<"Data generation complete!">>
    /\ stats_menu_enabled' = TRUE
    /\ data_info' = <<"Generated user records with total sensor records",
                      Len(lists[data]), total_sensors(lists[data])>>
    /\ grid' = show_data_preview(lists[data], grid)
    /\ msgbox' = <<"Successfully generated user records with sensor records",
                   Len(lists[data]), total_sensors(lists[data])>>

\* mutant of data_generation_error: the Statistics menu stays disabled
data_generation_error_MenuOff(error_msg) ==
    /\ generation_in_progress' = FALSE
    /\ status_text' = <<"Data generation failed">>
    /\ progress_label' = <<"Data generation failed!">>
    /\ msgbox' = <<"Error generating data:">> \o error_msg
    /\ UNCHANGED <<stats_menu_enabled, data_info, grid>>

data_generation_error(error_msg) ==
    /\ generation_in_progress' = FALSE
    /\ status_text' = <<"Data generation failed">>
    /\ progress_label' = <<"Data generation failed!">>
    /\ stats_menu_enabled' = TRUE
    /\ msgbox' = <<"Error generating data:">> \o error_msg
    /\ UNCHANGED <<data_info, grid>>

\* the event loop runs: at top level or inside a modal dialog (a message box
\* that ends a handler is dismissed within the step that shows it)
EventLoop == ui.pc \in {"idle", "confirm", "json_dialog", "csv_dialog"}

\* the event loop runs the oldest pending call
dispatch ==
    /\ EventLoop
    /\ queue # <<>>
    /\ queue' = Tail(queue)
    /\ LET call == Head(queue)
       IN  CASE call.fn = "data_generation_complete" -> data_generation_complete
             [] call.fn = "data_generation_error" -> data_generation_error(call.arg)
             [] OTHER -> run_set_label(call.arg)
    /\ stats_text' = NoText
    /\ file' = NoFile
    /\ UNCHANGED <<rvars, data, lists, threads, runs, ui>>

----------------------------------------------------------------------------
(* MainWindow.on_save_json *)

\* the menu item is chosen: without data an error box, else the file dialog
on_save_json ==
    /\ ui.pc = "idle"
    /\ IF NotData(data, lists)
       THEN /\ Outputs(<<"No data to save. Please generate data first.">>,
                       NoText, NoFile)
            /\ UNCHANGED ui
       ELSE /\ ui' = [Idle EXCEPT !.pc = "json_dialog"]
            /\ Outputs(NoBox, NoText, NoFile)
    /\ UNCHANGED <<rvars, data, lists, generation_in_progress,
                   stats_menu_enabled, status_text, progress_label, data_info,
                   grid, queue, threads, runs>>

\* the dialog is cancelled
json_cancel ==
    /\ ui.pc = "json_dialog"
    /\ ui' = Idle
    /\ Outputs(NoBox, NoText, NoFile)
    /\ UNCHANGED <<rvars, data, lists, generation_in_progress,
                   stats_menu_enabled, status_text, progress_label, data_info,
                   grid, queue, threads, runs>>

\* a path is chosen: "for user in self.data" takes the list self.data names
json_path ==
    /\ ui.pc = "json_dialog"
    /\ ui' = [Idle EXCEPT !.pc = "json_copy", !.list = data]
    /\ Outputs(NoBox, NoText, NoFile)
    /\ UNCHANGED <<rvars, data, lists, generation_in_progress,
                   stats_menu_enabled, status_text, progress_label, data_info,
                   grid, queue, threads, runs>>

\* mutant of json_copy: the readings are moved into the copy, the user in
\* the list keeps none
json_copy_Moving ==
    /\ ui.pc = "json_copy"
    /\ ui.i < Len(lists[ui.list])
    /\ ui' = [ui EXCEPT !.i = ui.i + 1,
                        !.out = Append(ui.out, lists[ui.list][ui.i + 1])]
    /\ lists' = [lists EXCEPT ![ui.list][ui.i + 1].sensor_data = <<>>]
    /\ Outputs(NoBox, NoText, NoFile)
    /\ UNCHANGED <<rvars, data, generation_in_progress,
                   stats_menu_enabled, status_text, progress_label, data_info,
                   grid, queue, threads, runs>>

\* one iteration: user_copy = user.copy(); json_data.append(user_copy)
json_copy ==
    /\ ui.pc = "json_copy"
    /\ ui.i < Len(lists[ui.list])
    /\ ui' = [ui EXCEPT !.i = ui.i + 1,
                        !.out = Append(ui.out, lists[ui.list][ui.i + 1])]
    /\ Outputs(NoBox, NoText, NoFile)
    /\ UNCHANGED <<rvars, data, lists, generation_in_progress,
                   stats_menu_enabled, status_text, progress_label, data_info,
                   grid, queue, threads, runs>>

\* a reading as json.dump writes it
json_reading(sensor) ==
    [date |-> [str |-> sensor.date], time |-> [str |-> sensor.time],
     outside_temperature |-> [num |-> float_str(sensor.outside_temperature)],
     outside_humidity    |-> [num |-> float_str(sensor.outside_humidity)],
     room_temperature    |-> [num |-> float_str(sensor.room_temperature)],
     room_humidity       |-> [num |-> float_str(sensor.room_humidity)]]

\* a user as json.dump writes it
json_user(user) ==
    [firstname |-> [str |-> user.firstname], lastname |-> [str |-> user.lastname],
     age |-> [num |-> int_str(user.age)], gender |-> [str |-> user.gender],
     username |-> [str |-> user.username], address |-> [str |-> user.address],
     email |-> [str |-> user.email],
     sensor_data |-> [k \in 1..Len(user.sensor_data) |->
                        json_reading(user.sensor_data[k])]]

\* json.dump(json_data, f, indent=2): the document written
json_dump(json_data) == [k \in 1..Len(json_data) |-> json_user(json_data[k])]

\* the loop is over: the file is written, or open / write raises
json_write ==
    /\ ui.pc = "json_copy"
    /\ ui.i >= Len(lists[ui.list])
    /\ \/ /\ Outputs(<<"Data saved to pathname">>, NoText,
                     [kind |-> "json", content |-> json_dump(ui.out)])
          /\ status_text' = <<"Data saved to pathname">>
       \/ /\ Outputs(<<"Error saving file: str(e)">>, NoText, NoFile)
          /\ UNCHANGED status_text
    /\ ui' = Idle
    /\ lists' = Keep(lists, Roots(data, threads, ui'))
    /\ UNCHANGED <<rvars, data, generation_in_progress,
                   stats_menu_enabled, progress_label, data_info, grid, queue,
                   threads, runs>>

----------------------------------------------------------------------------
(* MainWindow.on_save_csv *)

headers ==
    <<"firstname", "lastname", "age", "gender", "username", "address", "email",
      "date", "time", "outside_temperature", "outside_humidity",
      "room_temperature", "room_humidity">>

\* the row of one (user, reading) pair
csv_row(user, sensor) ==
    <<user.firstname, user.lastname, int_str(user.age), user.gender,
      user.username, user.address, user.email, sensor.date, sensor.time,
      float_str(sensor.outside_temperature), float_str(sensor.outside_humidity),
      float_str(sensor.room_temperature), float_str(sensor.room_humidity)>>

\* the menu item is chosen: without data an error box, else the file dialog
on_save_csv ==
    /\ ui.pc = "idle"
    /\ IF NotData(data, lists)
       THEN /\ Outputs(<<"No data to save. Please generate data first.">>,
                       NoText, NoFile)
            /\ UNCHANGED ui
       ELSE /\ ui' = [Idle EXCEPT !.pc = "csv_dialog"]
            /\ Outputs(NoBox, NoText, NoFile)
    /\ UNCHANGED <<rvars, data, lists, generation_in_progress,
                   stats_menu_enabled, status_text, progress_label, data_info,
                   grid, queue, threads, runs>>

\* the dialog is cancelled
csv_cancel ==
    /\ ui.pc = "csv_dialog"
    /\ ui' = Idle
    /\ Outputs(NoBox, NoText, NoFile)
    /\ UNCHANGED <<rvars, data, lists, generation_in_progress,
                   stats_menu_enabled, status_text, progress_label, data_info,
                   grid, queue, threads, runs>>

\* a path is chosen: csv_data = [headers]; "for user in self.data"
csv_path ==
    /\ ui.pc = "csv_dialog"
    /\ ui' = [Idle EXCEPT !.pc = "csv_rows", !.list = data, !.out = <<headers>>]
    /\ Outputs(NoBox, NoText, NoFile)
    /\ UNCHANGED <<rvars, data, lists, generation_in_progress,
                   stats_menu_enabled, status_text, progress_label, data_info,
                   grid, queue, threads, runs>>

RECURSIVE csv_inner(_, _, _, _, _)
\* "for sensor in user['sensor_data']" from reading k on: a row is appended,
\* then the loop breaks once record_count has reached max_records
csv_inner(user, sensor_data, k, record_count, csv_data) ==
    IF k > Len(sensor_data)
    THEN [count |-> record_count, out |-> csv_data]
    ELSE LET rows == Append(csv_data, csv_row(user, sensor_data[k]))
         IN  IF record_count + 1 >= max_records
             THEN [count |-> record_count + 1, out |-> rows]
             ELSE csv_inner(user, sensor_data, k + 1, record_count + 1, rows)

\* one iteration of the outer loop
csv_rows ==
    /\ ui.pc = "csv_rows"
    /\ ui.i < Len(lists[ui.list])
    /\ ui.count < max_records
    /\ LET user == lists[ui.list][ui.i + 1]
           res == csv_inner(user, user.sensor_data, 1, ui.count, ui.out)
       IN  ui' = [ui EXCEPT !.i = ui.i + 1, !.count = res.count, !.out = res.out]
    /\ Outputs(NoBox, NoText, NoFile)
    /\ UNCHANGED <<rvars, data, lists, generation_in_progress,
                   stats_menu_enabled, status_text, progress_label, data_info,
                   grid, queue, threads, runs>>

\* the outer loop is over or broken: the file is written, or writing raises
csv_write ==
    /\ ui.pc = "csv_rows"
    /\ ui.i >= Len(lists[ui.list]) \/ ui.count >= max_records
    /\ \/ /\ Outputs(<<"Data saved to pathname. Saved records.", ui.count>>,
                     NoText, [kind |-> "csv", content |-> ui.out])
          /\ status_text' = <<"Data saved to pathname">>
       \/ /\ Outputs(<<"Error saving file: str(e)">>, NoText, NoFile)
          /\ UNCHANGED status_text
    /\ ui' = Idle
    /\ lists' = Keep(lists, Roots(data, threads, ui'))
    /\ UNCHANGED <<rvars, data, generation_in_progress,
                   stats_menu_enabled, progress_label, data_info, grid, queue,
                   threads, runs>>

----------------------------------------------------------------------------
(* StatisticsDialog.generate_statistics and MainWindow.on_descriptive *)

RECURSIVE extend_all(_)
\* all_sensor_data: the readings of all users, user after user
extend_all(users) ==
    IF users = <<>> THEN <<>>
    ELSE Head(users).sensor_data \o extend_all(Tail(users))

RECURSIVE col_sum(_, _)
col_sum(rows, col) ==
    IF rows = <<>> THEN 0 ELSE Head(rows)[col] + col_sum(Tail(rows), col)

\* the count, mean, min and max lines of a column of the DataFrame, in
\* hundredths (the Std Dev and quantile lines are not modelled)
describe(rows, col) ==
    [column |-> col,
     count |-> Len(rows),
     mean |-> (2 * col_sum(rows, col) + Len(rows)) \div (2 * Len(rows)),
     min |-> CHOOSE v \in {rows[k][col] : k \in 1..Len(rows)} :
                \A k \in 1..Len(rows) : v <= rows[k][col],
     max |-> CHOOSE v \in {rows[k][col] : k \in 1..Len(rows)} :
                \A k \in 1..Len(rows) : v >= rows[k][col]]

columns ==
    <<"outside_temperature", "outside_humidity", "room_temperature", "room_humidity">>

\* mutant of frame_statistics: the date range ends where it starts
frame_statistics_OneDate(users, all_sensor_data) ==
    IF all_sensor_data = <<>>
    THEN <<"KeyError">>
    ELSE <<"statistics",
           [c \in 1..Len(columns) |-> describe(all_sensor_data, columns[c])],
           Len(users), Len(all_sensor_data),
           all_sensor_data[1].date,
           all_sensor_data[1].date>>

\* the lines computed from pd.DataFrame(all_sensor_data); selecting a column
\* of the frame of an empty list raises KeyError
frame_statistics(users, all_sensor_data) ==
    IF all_sensor_data = <<>>
    THEN <<"KeyError">>
    ELSE <<"statistics",
           [c \in 1..Len(columns) |-> describe(all_sensor_data, columns[c])],
           Len(users), Len(all_sensor_data),
           all_sensor_data[1].date,
           all_sensor_data[Len(all_sensor_data)].date>>

\* mutant of generate_statistics: the frame is built without asking whether
\* there is a reading
generate_statistics_NoSensorGuard(users) ==
    IF users = <<>>
    THEN <<"No data available. Please generate IoT data first.">>
    ELSE frame_statistics(users, extend_all(users))

\* the text generate_statistics(data) puts into the dialog
generate_statistics(users) ==
    IF users = <<>>
    THEN <<"No data available. Please generate IoT data first.">>
    ELSE LET all_sensor_data == extend_all(users)
         IN  IF all_sensor_data = <<>>
             THEN <<"No sensor data available.">>
             ELSE frame_statistics(users, all_sensor_data)

\* the menu item is chosen (the Statistics menu is enabled)
on_descriptive ==
    /\ ui.pc = "idle"
    /\ stats_menu_enabled
    /\ IF NotData(data, lists)
       THEN Outputs(<<"No data available. Please generate data first.">>,
                    NoText, NoFile)
       ELSE Outputs(NoBox, generate_statistics(lists[data]), NoFile)
    /\ UNCHANGED <<rvars, data, lists, generation_in_progress,
                   stats_menu_enabled, status_text, progress_label, data_info,
                   grid, queue, threads, runs, ui>>

----------------------------------------------------------------------------
(* PlotFrame: the plot window.  A frame is built by on_plot_a/b/c with the
   list self.data of the main window; two timers start its rendering, which
   runs on the interface thread and lets the event loop run at each wx.Yield;
   the zoom handlers act on it whenever events are delivered.  on_save_plot
   writes an image file and on_key_down only calls the zoom handlers, the
   scrollbars and Close: neither is modelled apart from those.  A frame that
   was closed is destroyed: a timer or a continuation of it that still runs
   fails on its first widget call and changes nothing of the main window. *)

\* "if i % 100 == 0": the extraction yields at every such user
YieldEvery == 100

\* PlotFrame.__init__: plot_ready False, zoom_level 1.0, the label "100%", and
\* wx.CallLater(100, self.start_plot_generation); plot_type only selects
\* what is drawn, which is not modelled
PlotFrame_init(list, plot_type) ==
    [NoFrame EXCEPT !.st = "open", !.pc = "shown", !.list = list]

\* what a step of a plot window leaves alone of the main window
FrameKeeps ==
    /\ Outputs(NoBox, NoText, NoFile)
    /\ UNCHANGED <<rvars, data, generation_in_progress, stats_menu_enabled,
                   progress_label, data_info, grid, queue, threads, runs, ui,
                   plots, current_plot_frame>>

\* events reach the window f: it exists, and neither a modal dialog of the
\* main window nor an export loop holds the interface thread
Delivered(f) == frames[f].st = "open" /\ ui.pc = "idle"

\* a timer of the window f may fire: the event loop runs
Fires(f) == frames[f].st = "open" /\ EventLoop

\* update_zoom: the label follows the level once the plot is there, and not
\* before
update_zoom(fr) ==
    IF fr.plot_ready THEN [fr EXCEPT !.zoom_label = fr.zoom_level] ELSE fr

\* a zoom handler turns the frame f into fr
ZoomTo(f, fr) ==
    /\ Delivered(f)
    /\ frames' = [frames EXCEPT ![f] = fr]
    /\ FrameKeeps
    /\ UNCHANGED <<lists, status_text>>

\* mutant of on_zoom_in: the level is not capped
on_zoom_in_NoCap(f) ==
    ZoomTo(f, update_zoom([frames[f] EXCEPT !.zoom_level = @ + ZoomStep,
                                            !.last = "zoom_in"]))

\* zoom_level += 0.25, capped at 5.0, then update_zoom()
on_zoom_in(f) ==
    ZoomTo(f, update_zoom([frames[f] EXCEPT
                  !.zoom_level = IF @ + ZoomStep > MaxZoom THEN MaxZoom
                                 ELSE @ + ZoomStep,
                  !.last = "zoom_in"]))

\* zoom_level -= 0.25, capped at 0.25, then update_zoom()
on_zoom_out(f) ==
    ZoomTo(f, update_zoom([frames[f] EXCEPT
                  !.zoom_level = IF @ - ZoomStep < MinZoom THEN MinZoom
                                 ELSE @ - ZoomStep,
                  !.last = "zoom_out"]))

\* zoom_level = 1.0, then update_zoom()
on_reset_zoom(f) ==
    ZoomTo(f, update_zoom([frames[f] EXCEPT !.zoom_level = 100,
                                            !.last = "reset"]))

\* the body of on_autofit: nothing unless the plot is there, else the level
\* is 1.0 and the label "100%"
autofit(fr) ==
    IF fr.plot_ready
    THEN [fr EXCEPT !.zoom_level = 100, !.zoom_label = 100, !.last = "autofit"]
    ELSE [fr EXCEPT !.last = "autofit"]

\* the Auto-Fit button or the key F
on_autofit(f) == ZoomTo(f, autofit(frames[f]))

\* the timer of __init__ fires: start_plot_generation sets the next timer
start_plot_generation(f) ==
    /\ Fires(f)
    /\ frames[f].pc = "shown"
    /\ frames' = [frames EXCEPT ![f].pc = "starting"]
    /\ FrameKeeps
    /\ UNCHANGED <<lists, status_text>>

\* the second timer fires: generate_plot_direct as far as its first wx.Yield
generate_plot_direct(f) ==
    /\ Fires(f)
    /\ frames[f].pc = "starting"
    /\ frames' = [frames EXCEPT ![f].pc = "extracting"]
    /\ FrameKeeps
    /\ UNCHANGED <<lists, status_text>>

RECURSIVE extract_until(_, _, _)
\* the extraction loop from the user i (counted from 0) on, found telling
\* whether all_sensor_data has an entry: it runs to its next wx.Yield, which
\* follows a user whose index is a multiple of YieldEvery, or to its end
extract_until(users, i, found) ==
    IF i >= Len(users) THEN [i |-> i, found |-> found, done |-> TRUE]
    ELSE LET now == found \/ users[i + 1].sensor_data # <<>>
         IN  IF i % YieldEvery = 0
             THEN [i |-> i + 1, found |-> now, done |-> FALSE]
             ELSE extract_until(users, i + 1, now)

\* wx.Yield returns into generate_plot_direct, which runs the extraction loop
\* to its next wx.Yield; after the last user the frame either has nothing to
\* plot and returns, or goes on to the wx.Yield before the DataFrame
plot_extract(f) ==
    /\ Delivered(f)
    /\ frames[f].pc = "extracting"
    /\ LET r == extract_until(lists[frames[f].list], frames[f].i, frames[f].found)
       IN  frames' = [frames EXCEPT
                         ![f].i = r.i,
                         ![f].found = r.found,
                         ![f].pc = IF ~r.done THEN "extracting"
                                   ELSE IF r.found THEN "drawing"
                                   ELSE "nodata"]
    /\ FrameKeeps
    /\ UNCHANGED <<lists, status_text>>

\* the two wx.Yield of the drawing return, the figure is drawn: plot_ready is
\* True and wx.CallLater(500, self.on_autofit, None) is set
plot_draw(f) ==
    /\ Delivered(f)
    /\ frames[f].pc = "drawing"
    /\ frames' = [frames EXCEPT ![f].pc = "ready", ![f].plot_ready = TRUE]
    /\ FrameKeeps
    /\ UNCHANGED <<lists, status_text>>

\* a call of the rendering raises: the handler writes the error into the
\* status bar of the main window
plot_except(f) ==
    /\ Delivered(f)
    /\ frames[f].pc \in {"extracting", "drawing"}
    /\ frames' = [frames EXCEPT ![f].pc = "error"]
    /\ status_text' = <<"Plot error">>
    /\ FrameKeeps
    /\ UNCHANGED lists

\* the timer set after the drawing fires: on_autofit(None)
autofit_timer(f) ==
    /\ Fires(f)
    /\ frames[f].pc = "ready"
    /\ frames' = [frames EXCEPT ![f] = [autofit(@) EXCEPT !.pc = "fitted"]]
    /\ FrameKeeps
    /\ UNCHANGED <<lists, status_text>>

\* the user closes the window f (its close box, or Escape)
plot_close(f) ==
    /\ Delivered(f)
    /\ frames' = [frames EXCEPT ![f] = Closed]
    /\ lists' = Keep(lists, RootsWith(data, threads, ui, frames'))
    /\ FrameKeeps
    /\ UNCHANGED status_text

\* mutant of on_plot: the window open before is left open
on_plot_KeepsOld(plot_type) ==
    /\ ui.pc = "idle"
    /\ stats_menu_enabled
    /\ IF NotData(data, lists)
       THEN /\ Outputs(<<"No data available. Please generate data first.">>,
                       NoText, NoFile)
            /\ UNCHANGED <<pvars, lists>>
       ELSE /\ plots < MaxPlots
            /\ plots' = plots + 1
            /\ frames' = [frames EXCEPT ![plots + 1] = PlotFrame_init(data, plot_type)]
            /\ current_plot_frame' = plots + 1
            /\ lists' = Keep(lists, RootsWith(data, threads, ui, frames'))
            /\ Outputs(NoBox, NoText, NoFile)
    /\ UNCHANGED <<rvars, data, generation_in_progress, stats_menu_enabled,
                   status_text, progress_label, data_info, grid, queue,
                   threads, runs, ui>>

\* on_plot_a, on_plot_b, on_plot_c: without data an error box, else the
\* window open before is closed and a new one is built and kept in
\* self.current_plot_frame (at most MaxPlots times)
on_plot(plot_type) ==
    /\ ui.pc = "idle"
    /\ stats_menu_enabled
    /\ IF NotData(data, lists)
       THEN /\ Outputs(<<"No data available. Please generate data first.">>,
                       NoText, NoFile)
            /\ UNCHANGED <<pvars, lists>>
       ELSE /\ plots < MaxPlots
            /\ plots' = plots + 1
            /\ frames' = [f \in DOMAIN frames |->
                            IF f = plots + 1 THEN PlotFrame_init(data, plot_type)
                            ELSE IF f = current_plot_frame /\ IsOpen(frames, f)
                            THEN Closed
                            ELSE frames[f]]
            /\ current_plot_frame' = plots + 1
            /\ lists' = Keep(lists, RootsWith(data, threads, ui, frames'))
            /\ Outputs(NoBox, NoText, NoFile)
    /\ UNCHANGED <<rvars, data, generation_in_progress, stats_menu_enabled,
                   status_text, progress_label, data_info, grid, queue,
                   threads, runs, ui>>

on_plot_a == on_plot("A")

on_plot_b == on_plot("B")

on_plot_c == on_plot("C")

----------------------------------------------------------------------------
(* Specification Spec: the main window, its generation threads and exports *)

GenUnused ==
    /\ g_start_date = DefaultStartDate
    /\ g_num_records = 0
    /\ g_pc = "unused"
    /\ g_result = <<>>

Init ==
    /\ tape \in AppTapes
    /\ rand_pos = 0
    /\ fake \in FakerStreams
    /\ fake_pos = 0
    /\ MainInit
    /\ GenUnused

\* an export is reading self.data
Exporting(u) == u.pc \in {"json_copy", "csv_rows"}

\* every step of the application leaves the generator call alone and records
\* the value of self.data an export in progress could read and the value it
\* had when a generation run is started
Tick ==
    /\ UNCHANGED gvars
    /\ seen' = IF Exporting(ui')
               THEN (IF Exporting(ui) THEN seen ELSE {}) \cup {lists'[data']}
               ELSE {}
    /\ before' = IF runs' = runs THEN before
                 ELSE [none |-> data = 0,
                       users |-> IF data = 0 THEN <<>> ELSE lists[data]]

\* a step that is none of a plot window and opens or closes none
Tock == Tick /\ UNCHANGED pvars

Next ==
    \/ on_generate /\ Tick
    \/ confirm_yes /\ Tock
    \/ confirm_no /\ Tock
    \/ dispatch /\ Tock
    \/ on_save_json /\ Tock
    \/ json_cancel /\ Tock
    \/ json_path /\ Tock
    \/ json_copy /\ Tock
    \/ json_write /\ Tock
    \/ on_save_csv /\ Tock
    \/ csv_cancel /\ Tock
    \/ csv_path /\ Tock
    \/ csv_rows /\ Tock
    \/ csv_write /\ Tock
    \/ on_descriptive /\ Tock
    \/ \E t \in 1..MaxRuns : thread_start(t) /\ Tock
    \/ \E t \in 1..MaxRuns : thread_users(t) /\ Tock
    \/ \E t \in 1..MaxRuns : thread_loop(t) /\ Tock
    \/ \E t \in 1..MaxRuns : thread_sensors(t) /\ Tock
    \/ \E t \in 1..MaxRuns : thread_complete(t) /\ Tock
    \/ \E t \in 1..MaxRuns : thread_except(t) /\ Tock

Spec == Init /\ [][Next]_vars

----------------------------------------------------------------------------
(* Specification SpecFair: Spec under fair scheduling *)

\* a step of a generation thread
ThreadNext ==
    \E t \in 1..MaxRuns :
        (\/ thread_start(t) \/ thread_users(t) \/ thread_loop(t)
         \/ thread_sensors(t) \/ thread_complete(t) \/ thread_except(t)) /\ Tock

\* a step of an export loop: code the interface thread is running
ExportNext == (json_copy \/ json_write \/ csv_rows \/ csv_write) /\ Tock

\* generation runs started in one behaviour of SpecFair
MaxFairRuns == 1

\* whether a run ends does not depend on what is drawn: one seed
FairInit ==
    /\ Init
    /\ tape = Pattern(<<1, RandomDen, RandomDen, 1>>)
    /\ fake = <<Ann, Bob>>

FairNext ==
    \/ on_generate /\ runs < MaxFairRuns /\ Tick
    \/ confirm_yes /\ Tock
    \/ confirm_no /\ Tock
    \/ dispatch /\ Tock
    \/ on_save_json /\ Tock
    \/ json_cancel /\ Tock
    \/ json_path /\ Tock
    \/ on_save_csv /\ Tock
    \/ csv_cancel /\ Tock
    \/ csv_path /\ Tock
    \/ on_descriptive /\ Tock
    \/ ExportNext
    \/ ThreadNext

\* a runnable thread is scheduled (the interpreter switches threads and
\* time.sleep returns), the handler the interface thread is running goes on,
\* and the event loop, whenever it runs again, gets to the pending calls
SpecFair ==
    /\ FairInit
    /\ [][FairNext]_vars
    /\ WF_vars(ThreadNext)
    /\ WF_vars(ExportNext)
    /\ SF_vars(dispatch /\ Tock)

----------------------------------------------------------------------------
(* Specification SpecPlot: the main window together with its plot windows *)

\* generation runs confirmed in one behaviour of SpecPlot
MaxPlotRuns == 1

\* zoom steps away from 100% in one behaviour of SpecPlot
MaxZoomDrift == 1

\* the level of the window f is less than MaxZoomDrift steps above 100%
MayZoomIn(f) == frames[f].zoom_level < 100 + MaxZoomDrift * ZoomStep

\* the level of the window f is less than MaxZoomDrift steps below 100%
MayZoomOut(f) == frames[f].zoom_level > 100 - MaxZoomDrift * ZoomStep

PlotNext ==
    \/ on_generate /\ Tick
    \/ confirm_yes /\ runs < MaxPlotRuns /\ Tock
    \/ confirm_no /\ Tock
    \/ dispatch /\ Tock
    \/ on_save_json /\ Tock
    \/ json_cancel /\ Tock
    \/ json_path /\ Tock
    \/ on_save_csv /\ Tock
    \/ csv_cancel /\ Tock
    \/ csv_path /\ Tock
    \/ on_descriptive /\ Tock
    \/ ExportNext
    \/ ThreadNext
    \/ on_plot_a /\ Tick
    \/ on_plot_b /\ Tick
    \/ on_plot_c /\ Tick
    \/ \E f \in 1..MaxPlots : start_plot_generation(f) /\ Tick
    \/ \E f \in 1..MaxPlots : generate_plot_direct(f) /\ Tick
    \/ \E f \in 1..MaxPlots : plot_extract(f) /\ Tick
    \/ \E f \in 1..MaxPlots : plot_draw(f) /\ Tick
    \/ \E f \in 1..MaxPlots : plot_except(f) /\ Tick
    \/ \E f \in 1..MaxPlots : autofit_timer(f) /\ Tick
    \/ \E f \in 1..MaxPlots : on_zoom_in(f) /\ MayZoomIn(f) /\ Tick
    \/ \E f \in 1..MaxPlots : on_zoom_out(f) /\ MayZoomOut(f) /\ Tick
    \/ \E f \in 1..MaxPlots : on_reset_zoom(f) /\ Tick
    \/ \E f \in 1..MaxPlots : on_autofit(f) /\ Tick
    \/ \E f \in 1..MaxPlots : plot_close(f) /\ Tick

\* which values are drawn does not matter to the windows: one seed
SpecPlot == FairInit /\ [][PlotNext]_vars

----------------------------------------------------------------------------
(* Specification SpecFrame: the plot windows over the whole zoom range, the
   main window generating the data and opening them *)

FrameNext ==
    \/ on_generate /\ Tick
    \/ confirm_yes /\ Tock
    \/ confirm_no /\ Tock
    \/ dispatch /\ Tock
    \/ ThreadNext
    \/ on_plot_a /\ Tick
    \/ on_plot_b /\ Tick
    \/ on_plot_c /\ Tick
    \/ \E f \in 1..MaxPlots : start_plot_generation(f) /\ Tick
    \/ \E f \in 1..MaxPlots : generate_plot_direct(f) /\ Tick
    \/ \E f \in 1..MaxPlots : plot_extract(f) /\ Tick
    \/ \E f \in 1..MaxPlots : plot_draw(f) /\ Tick
    \/ \E f \in 1..MaxPlots : plot_except(f) /\ Tick
    \/ \E f \in 1..MaxPlots : autofit_timer(f) /\ Tick
    \/ \E f \in 1..MaxPlots : on_zoom_in(f) /\ Tick
    \/ \E f \in 1..MaxPlots : on_zoom_out(f) /\ Tick
    \/ \E f \in 1..MaxPlots : on_reset_zoom(f) /\ Tick
    \/ \E f \in 1..MaxPlots : on_autofit(f) /\ Tick
    \/ \E f \in 1..MaxPlots : plot_close(f) /\ Tick

SpecFrame == FairInit /\ [][FrameNext]_vars
----------------------------------------------------------------------------
(* Specification SpecGen: one call of a method of IoTDataGenerator *)

\* start dates: the application's default, a year's end, the ends of
\* February in a leap and in a common year, the last representable day
StartDates ==
    { <<2015, 1, 1>>, <<2015, 12, 31>>, <<2016, 2, 28>>, <<2015, 2, 28>>,
      <<9999, 12, 31>> }

InitGen ==
    /\ g_start_date \in StartDates
    /\ g_num_records \in (0 - 1)..MaxRecords
    /\ tape \in Tapes
    /\ rand_pos = 0
    /\ fake = <<Ann, Bob>>
    /\ fake_pos = 0
    /\ g_pc \in {"call", "call_users"}
    /\ g_result = <<>>
    /\ MainInit

GenCall ==
    /\ g_pc = "call"
    /\ LET res == generate_sensor_data_for_user(g_start_date, g_num_records,
                                                tape, rand_pos)
       IN  /\ g_pc' = IF res.raised THEN "raised" ELSE "returned"
           /\ g_result' = res.sensor_data
           /\ rand_pos' = (rand_pos + 4 * Len(res.sensor_data)) % TapeLen
    /\ UNCHANGED <<tape, fake, fake_pos, g_start_date, g_num_records>>
    /\ UNCHANGED mvars

\* generate_user_data(num_records), the count taken from g_num_records
UserCall ==
    /\ g_pc = "call_users"
    /\ g_pc' = "returned_users"
    /\ g_result' = generate_user_data(g_num_records, fake, fake_pos, tape, rand_pos)
    /\ rand_pos' = (rand_pos + 2 * Len(g_result')) % TapeLen
    /\ fake_pos' = (fake_pos + Len(g_result')) % Len(fake)
    /\ UNCHANGED <<tape, fake, g_start_date, g_num_records>>
    /\ UNCHANGED mvars

NextGen == GenCall \/ UserCall

SpecGen == InitGen /\ [][NextGen]_vars

----------------------------------------------------------------------------
(* Properties of generate_sensor_data_for_user (SpecGen) *)

\* the readings of the sequence the call returned
Returned == IF g_pc = "returned" THEN g_result ELSE <<>>

\* C1: in every reading the call returns, the stored room_temperature is at
\* most the stored outside_temperature and the stored room_humidity at most
\* the stored outside_humidity.
C1_RoomAtMostOutside ==
    \A k \in 1..Len(Returned) :
        /\ Returned[k].room_temperature <= Returned[k].outside_temperature
        /\ Returned[k].room_humidity <= Returned[k].outside_humidity

\* a returned reading whose room temperature was drawn strictly below the
\* outside temperature and is stored equal to it, beside one stored below
C1_Witness ==
    /\ g_pc = "returned"
    /\ \E k \in 1..Len(g_result) :
        /\ random(tape, 4 * (k - 1) + 1) > 0
        /\ g_result[k].room_temperature = g_result[k].outside_temperature
        /\ g_result[k].room_humidity < g_result[k].outside_humidity

\* C2: in every reading the call returns, outside_temperature lies in
\* [70, 95] and outside_humidity in [50, 95], bounds included.
C2_OutsideInRange ==
    \A k \in 1..Len(Returned) :
        /\ Returned[k].outside_temperature >= 7000
        /\ Returned[k].outside_temperature <= 9500
        /\ Returned[k].outside_humidity >= 5000
        /\ Returned[k].outside_humidity <= 9500

\* a returned reading at the upper end of one range and the lower end of
\* the other
C2_Witness ==
    /\ g_pc = "returned"
    /\ \E k \in 1..Len(g_result) :
        /\ g_result[k].outside_temperature = 9500
        /\ g_result[k].outside_humidity = 5000

\* days from 0001-01-01 to the date <<y, m, d>> (date.toordinal)
RECURSIVE DaysBeforeMonth(_, _)
DaysBeforeMonth(y, m) ==
    IF m = 1 THEN 0 ELSE DaysBeforeMonth(y, m - 1) + DaysInMonth(y, m - 1)

Ordinal(date_str) ==
    LET y == date_str[1] - 1
    IN  365 * y + (y \div 4) - (y \div 100) + (y \div 400)
        + DaysBeforeMonth(date_str[1], date_str[2]) + date_str[3]

\* whole hours from 0001-01-01 00:00 to the timestamp of a reading
Stamp(r) == Ordinal(r.date) * 24 + r.time[1]

\* C3: the first reading returned is stamped start_date 00:00:00 and every
\* later one exactly 6 hours after its predecessor.
C3_SixHoursApart ==
    /\ Len(Returned) > 0 =>
        /\ Returned[1].date = g_start_date
        /\ Returned[1].time = <<0, 0, 0>>
    /\ \A k \in 2..Len(Returned) :
        /\ Stamp(Returned[k]) = Stamp(Returned[k - 1]) + 6
        /\ Returned[k].time[2] = Returned[k - 1].time[2]
        /\ Returned[k].time[3] = Returned[k - 1].time[3]

\* a returned sequence whose fifth reading falls in the next year
C3_Witness ==
    /\ g_pc = "returned"
    /\ Len(g_result) >= 5
    /\ g_result[5].date[1] = g_start_date[1] + 1
    /\ g_result[5].time = <<0, 0, 0>>


\* C11: called with a count that is zero or negative, generate_user_data and
\* generate_sensor_data_for_user return an empty list and raise nothing.
C11_EmptyForNoCount ==
    (g_num_records <= 0 /\ g_pc \notin {"call", "call_users"}) =>
        /\ g_pc \in {"returned", "returned_users"}
        /\ g_result = <<>>

\* generate_sensor_data_for_user has returned from a call with a negative
\* count that starts on the last representable day
C11_Witness ==
    /\ g_pc = "returned"
    /\ g_num_records < 0
    /\ g_start_date = <<9999, 12, 31>>
    /\ g_result = <<>>

\* C12: in every reading the call returns, the stored room value is at most
\* 10 below the stored outside value, for temperature and for humidity, so
\* that room_temperature is at least 60 and room_humidity at least 40.
C12_OffsetAtMostTen ==
    \A k \in 1..Len(Returned) :
        /\ Returned[k].outside_temperature - Returned[k].room_temperature <= 1000
        /\ Returned[k].outside_humidity - Returned[k].room_humidity <= 1000
        /\ Returned[k].room_temperature >= 6000
        /\ Returned[k].room_humidity >= 4000

\* a returned reading with the lowest room temperature and the lowest room
\* humidity: the outside values at their lower ends, both offsets at 10
C12_Witness ==
    /\ g_pc = "returned"
    /\ \E k \in 1..Len(g_result) :
        /\ g_result[k].outside_temperature = 7000
        /\ g_result[k].room_temperature = 6000
        /\ g_result[k].outside_humidity = 5000
        /\ g_result[k].room_humidity = 4000
----------------------------------------------------------------------------
(* Properties of the main window (Spec) *)

\* the step runs the pending call of fn from the wx.CallAfter queue
CallRuns(fn) ==
    /\ EventLoop
    /\ queue # <<>>
    /\ Head(queue).fn = fn
    /\ queue' = Tail(queue)

\* every user of the list has num readings
AllHave(users, num) == \A k \in 1..Len(users) : Len(users[k].sensor_data) = num

\* C4: when data_generation_complete runs, self.data holds exactly NumUsers
\* users and every one of them carries exactly NumRecords readings.
C4_CompleteBatch ==
    [][CallRuns("data_generation_complete") =>
         /\ data' # 0
         /\ Len(lists'[data']) = NumUsers
         /\ AllHave(lists'[data'], NumRecords)
         /\ data_info' = <<"Generated user records with total sensor records",
                           NumUsers, NumUsers * NumRecords>>]_vars

\* data_generation_complete has just run on a second batch
C4_Witness ==
    /\ msgbox = <<"Successfully generated user records with sensor records",
                  NumUsers, NumUsers * NumRecords>>
    /\ data = 2
    /\ AllHave(lists[data], NumRecords)

\* C5: at most one generation thread exists at any moment, and choosing
\* Generate while generation_in_progress is true is rejected: it starts no
\* thread, opens no confirmation dialog and leaves the data alone.
C5_OneRunAtATime ==
    [][/\ Cardinality(LiveThreads') <= 1
       /\ (ui.pc = "idle" /\ generation_in_progress /\ ui'.pc = "confirm") => FALSE
       /\ (generation_in_progress /\ on_generate) =>
            /\ msgbox' = <<"Data generation is already in progress!">>
            /\ UNCHANGED <<data, lists, threads, runs, ui, generation_in_progress>>
      ]_vars

\* Generate has just been rejected while the thread of the run is at work
C5_Witness ==
    /\ msgbox = <<"Data generation is already in progress!">>
    /\ generation_in_progress
    /\ \E t \in LiveThreads : threads[t].pc = "sensors" /\ threads[t].i = 1

\* thread t leaves its try block by an exception in this step
Abandons(t) ==
    /\ threads[t].pc \notin {"unborn", "exited"}
    /\ threads'[t].pc = "exited"
    /\ ~(threads[t].pc = "sensors" /\ threads[t].i >= Len(lists[threads[t].list]))

\* C6: an exception in the generation thread is caught there and handed to
\* data_generation_error through the queue; when that call has run on the
\* interface thread the error is shown, generation_in_progress is false, the
\* Statistics menu is enabled and no thread is left, so that Generate is
\* accepted again.
C6_ErrorReported ==
    [][/\ \A t \in DOMAIN threads :
            Abandons(t) =>
                /\ queue' = Append(queue, [fn |-> "data_generation_error",
                                           arg |-> <<"str(e)">>])
                /\ generation_in_progress'
       /\ CallRuns("data_generation_error") =>
            /\ msgbox' = <<"Error generating data:", "str(e)">>
            /\ ~generation_in_progress'
            /\ stats_menu_enabled'
            /\ LiveThreads' = {}
      ]_vars

\* data_generation_error has just run and Generate can be chosen again
C6_Witness ==
    /\ msgbox = <<"Error generating data:", "str(e)">>
    /\ ~generation_in_progress
    /\ stats_menu_enabled
    /\ ui.pc = "idle"
    /\ runs < MaxRuns
    /\ ENABLED on_generate

\* a step of a generation thread: the threads change and none is started
ThreadStep == threads' # threads /\ runs' = runs

\* C7: no step of a generation thread changes the progress label, the status
\* bar, the data-info label, the preview grid, the menu enablement, the
\* generation_in_progress flag or a dialog: such changes are made by the
\* calls the interface thread takes from the queue.
C7_ThreadLeavesWidgets ==
    [][ThreadStep => UNCHANGED widgets]_vars

\* the thread has attached readings and posted its calls, none of which the
\* interface thread has run yet
C7_Witness ==
    /\ \E t \in LiveThreads : threads[t].pc = "sensors" /\ threads[t].i >= 1
    /\ progress_label = <<"Starting data generation...">>
    /\ Len(queue) >= 3
    /\ data # 0
    /\ lists[data][1].sensor_data # <<>>


\* some users of the list have readings and others have none
HalfBuilt(users) ==
    /\ \E u \in 1..Len(users) : users[u].sensor_data # <<>>
    /\ \E u \in 1..Len(users) : users[u].sensor_data = <<>>

\* C19: when data_generation_error has run, self.data is what it was before
\* the failed run started, or a batch in which every user has the full
\* number of readings; it is not a batch in which some users have readings
\* and others have none.
C19_NoHalfBuiltBatch ==
    [][CallRuns("data_generation_error") =>
         /\ \/ /\ before.none
               /\ data' = 0
            \/ /\ ~before.none
               /\ data' # 0
               /\ lists'[data'] = before.users
            \/ /\ data' # 0
               /\ AllHave(lists'[data'], NumRecords)
         /\ data' # 0 => ~HalfBuilt(lists'[data'])]_vars

\* the pending calls that end a run
EndCalls(q) ==
    {k \in 1..Len(q) :
        q[k].fn \in {"data_generation_complete", "data_generation_error"}}

\* the interface thread runs the call that ends a run
RunEnds ==
    CallRuns("data_generation_complete") \/ CallRuns("data_generation_error")

\* C15: a run that was started ends: while generation_in_progress is true
\* its thread is at work or the one call that ends it is pending, the call
\* that ends a run finds the flag true and clears it, and under fair
\* scheduling the flag is eventually false again.
C15_RunEnds ==
    /\ [](Cardinality(EndCalls(queue)) + Cardinality(LiveThreads)
            = IF generation_in_progress THEN 1 ELSE 0)
    /\ [][RunEnds => generation_in_progress /\ ~generation_in_progress']_vars
    /\ generation_in_progress ~> ~generation_in_progress

\* a run has been started and has ended by an error after the first user's
\* readings were attached
C15_Witness ==
    /\ runs >= 1
    /\ ~generation_in_progress
    /\ data # 0
    /\ lists[data][1].sensor_data # <<>>
    /\ LiveThreads = {}
    /\ queue = <<>>
    /\ status_text = <<"Data generation failed">>
\* the rows of the readings of one user, in sequence order
PairRows(user) ==
    [k \in 1..Len(user.sensor_data) |-> csv_row(user, user.sensor_data[k])]

RECURSIVE FlatRows(_)
\* the user-major flattening: users in list order, each with its readings
FlatRows(users) ==
    IF users = <<>> THEN <<>>
    ELSE PairRows(Head(users)) \o FlatRows(Tail(users))

\* header and rows a CSV export of the users is to write
ExpectedCsv(users) ==
    <<headers>> \o
    SubSeq(FlatRows(users), 1, Min(total_sensors(users), max_records))

\* the step writes the CSV file
CsvWritten == ui.pc = "csv_rows" /\ file'.kind = "csv"

\* C8: a successful CSV export writes the 13-column header and then exactly
\* min(total readings, max_records) rows: the first (user, reading) pairs of
\* the user-major flattening of self.data, for a value self.data had while
\* the export read it.
C8_CsvIsPrefixOfData ==
    [][CsvWritten =>
         /\ Len(headers) = 13
         /\ \E users \in seen : file'.content = ExpectedCsv(users)]_vars

\* json.load of a number, in hundredths
json_float(num) ==
    num.int * 100 + (IF Len(num.frac) = 1 THEN num.frac[1] * 10
                     ELSE num.frac[1] * 10 + num.frac[2])

RECURSIVE json_int(_)
\* json.load of an integer
json_int(digits) ==
    IF Len(digits) = 1 THEN digits[1]
    ELSE json_int(SubSeq(digits, 1, Len(digits) - 1)) * 10 + digits[Len(digits)]

json_load_reading(doc) ==
    [date |-> doc.date.str, time |-> doc.time.str,
     outside_temperature |-> json_float(doc.outside_temperature.num),
     outside_humidity    |-> json_float(doc.outside_humidity.num),
     room_temperature    |-> json_float(doc.room_temperature.num),
     room_humidity       |-> json_float(doc.room_humidity.num)]

json_load_user(doc) ==
    [firstname |-> doc.firstname.str, lastname |-> doc.lastname.str,
     age |-> json_int(doc.age.num), gender |-> doc.gender.str,
     username |-> doc.username.str, address |-> doc.address.str,
     email |-> doc.email.str,
     sensor_data |-> [k \in 1..Len(doc.sensor_data) |->
                        json_load_reading(doc.sensor_data[k])]]

\* json.load of an exported document
json_load(doc) == [k \in 1..Len(doc) |-> json_load_user(doc[k])]

\* the step writes the JSON file
JsonWritten == ui.pc = "json_copy" /\ file'.kind = "json"

\* C9: reparsing the file a JSON export wrote gives the users of self.data
\* in their order, each with all its readings in their order and with the
\* same field values, for a value self.data had while the export read it.
C9_JsonRoundTrip ==
    [][JsonWritten => json_load(file'.content) \in seen]_vars


\* every user of the list has the full number of readings
FullBatch(users) ==
    /\ Len(users) = NumUsers
    /\ \A u \in 1..Len(users) : Len(users[u].sensor_data) = NumRecords

\* C18: whenever Save as JSON or Save as CSV writes a file, what it
\* serializes is a complete batch: the JSON document has every user with the
\* full number of readings, the CSV file the header and the first
\* min(NumUsers * NumRecords, max_records) rows of a complete batch, also
\* when the export was chosen while a generation run was in progress.
C18_ExportSeesCompleteBatch ==
    [][/\ JsonWritten => FullBatch(json_load(file'.content))
       /\ CsvWritten =>
            \E users \in seen :
                /\ FullBatch(users)
                /\ file'.content = ExpectedCsv(users)]_vars

----------------------------------------------------------------------------
(* Properties of the statistics dialog (Spec) *)

\* the step is on_descriptive: it shows its error box or a statistics dialog
StatsAsked ==
    /\ ui.pc = "idle"
    /\ \/ stats_text' # NoText
       \/ msgbox' = <<"No data available. Please generate data first.">>

\* the texts that report that there is nothing to summarise
NoDataTexts ==
    { <<"No data available. Please generate IoT data first.">>,
      <<"No sensor data available.">> }

\* C10: asked for statistics while self.data is None or empty, or while no
\* user has a reading, the application reports that there is no data: the
\* error box of on_descriptive or a no-data text of generate_statistics, and
\* never a computed statistic or an exception; generate_statistics of an
\* empty list is the no-data text as well.
C10_NoDataReported ==
    /\ [](generate_statistics(<<>>) \in NoDataTexts)
    /\ [][/\ StatsAsked
          /\ NotData(data, lists) \/ total_sensors(lists[data]) = 0
          => \/ /\ msgbox' = <<"No data available. Please generate data first.">>
                /\ stats_text' = NoText
             \/ /\ msgbox' = NoBox
                /\ stats_text' \in NoDataTexts]_vars

\* the dialog has reported users without a single reading
C10_Witness ==
    /\ stats_text = <<"No sensor data available.">>
    /\ data # 0
    /\ Len(lists[data]) = NumUsers
    /\ total_sensors(lists[data]) = 0

\* the dates of all readings of all users
AllDates(users) ==
    UNION {{users[u].sensor_data[k].date : k \in 1..Len(users[u].sensor_data)} :
             u \in 1..Len(users)}

\* the step opens the statistics dialog with computed statistics
StatsComputed == ui.pc = "idle" /\ stats_text'[1] = "statistics"

\* C14: whenever Descriptive Statistics computes statistics, the date range
\* it reports starts at the earliest and ends at the latest date among all
\* readings of all users of self.data, and the reported total is the sum of
\* the users' reading counts.
C14_DateRangeAndTotal ==
    [][StatsComputed =>
         LET users == lists[data]
             text == stats_text'
         IN  /\ text[5] \in AllDates(users)
             /\ text[6] \in AllDates(users)
             /\ \A d \in AllDates(users) :
                    /\ Ordinal(text[5]) <= Ordinal(d)
                    /\ Ordinal(d) <= Ordinal(text[6])
             /\ text[4] = total_sensors(users)
             /\ text[3] = Len(users)]_vars

\* the dialog shows the statistics of a batch in which only the first user
\* has readings, and they span two days
C14_Witness ==
    /\ stats_text[1] = "statistics"
    /\ stats_text[5] # stats_text[6]
    /\ lists[data][1].sensor_data # <<>>
    /\ lists[data][NumUsers].sensor_data = <<>>
----------------------------------------------------------------------------
(* Properties of the plot windows *)

\* the plot windows that exist
OpenFrames == {f \in DOMAIN frames : frames[f].st = "open"}

\* a multiple of 0.25 within [0.25, 5.0]
ZoomInRange(z) == z \in MinZoom..MaxZoom /\ z % ZoomStep = 0

\* this step is the handling of the zoom action op by the window f and has
\* changed it
Zoomed(f, op) ==
    /\ frames[f].st = "open"
    /\ frames'[f].st = "open"
    /\ frames'[f].last = op
    /\ frames[f].last # op \/ frames'[f].zoom_level # frames[f].zoom_level

\* what zoom-in, zoom-out and reset make of the level of the window f
ZoomButtons(f) ==
    /\ Zoomed(f, "zoom_in") =>
           frames'[f].zoom_level =
               IF frames[f].zoom_level + ZoomStep > MaxZoom THEN MaxZoom
               ELSE frames[f].zoom_level + ZoomStep
    /\ Zoomed(f, "zoom_out") =>
           frames'[f].zoom_level =
               IF frames[f].zoom_level - ZoomStep < MinZoom THEN MinZoom
               ELSE frames[f].zoom_level - ZoomStep
    /\ Zoomed(f, "reset") => frames'[f].zoom_level = 100

\* C17 as stated: after any sequence of zoom-in, zoom-out, reset-zoom and
\* auto-fit actions on a plot window, zoom_level is a multiple of 0.25 within
\* [0.25, 5.0]; zoom-in adds 0.25 saturating at 5.0, zoom-out subtracts 0.25
\* saturating at 0.25, and reset and auto-fit set it to 1.0
C17_ZoomLevelAsStated ==
    /\ [](\A f \in OpenFrames : ZoomInRange(frames[f].zoom_level))
    /\ [][\A f \in DOMAIN frames :
            /\ ZoomButtons(f)
            /\ Zoomed(f, "autofit") => frames'[f].zoom_level = 100]_vars

\* C17, amended: after any sequence of zoom-in, zoom-out, reset-zoom and
\* auto-fit actions on a plot window, zoom_level is a multiple of 0.25 within
\* [0.25, 5.0]; zoom-in adds 0.25 saturating at 5.0, zoom-out subtracts 0.25
\* saturating at 0.25, reset sets it to 1.0, and auto-fit sets it to 1.0 when
\* the plot has been rendered (plot_ready is true) and leaves it as it is
\* before that
C17_ZoomLevel ==
    /\ [](\A f \in OpenFrames : ZoomInRange(frames[f].zoom_level))
    /\ [][\A f \in DOMAIN frames :
            /\ ZoomButtons(f)
            /\ Zoomed(f, "autofit") =>
                   frames'[f].zoom_level =
                       IF frames[f].plot_ready THEN 100
                       ELSE frames[f].zoom_level]_vars

\* a window that was zoomed in up to the cap before its plot was rendered,
\* and whose Auto-Fit button was then pressed
C17_Witness ==
    \E f \in OpenFrames :
        /\ ~frames[f].plot_ready
        /\ frames[f].last = "autofit"
        /\ frames[f].zoom_level = MaxZoom

\* C20: in a plot window the displayed zoom percentage equals zoom_level
\* times 100 after every zoom-in, zoom-out, reset or auto-fit action, those
\* performed before the plot has finished rendering included
C20_LabelShowsLevel ==
    \A f \in OpenFrames :
        frames[f].last # "none" => frames[f].zoom_label = frames[f].zoom_level

\* C13: the users and readings in memory are changed by a generation run
\* only: a step that is not a step of a generation thread (Save as JSON, Save
\* as CSV, Descriptive Statistics, Plot A/B/C, a step of a plot window, zooming,
\* the calls that fill the preview grid), succeeding or failing, leaves
\* self.data the same list and every list with the users and readings it had
C13_OnlyGenerationChangesData ==
    [][~ThreadStep =>
          /\ data' = data
          /\ \A l \in (DOMAIN lists) \cap (DOMAIN lists') : lists'[l] = lists[l]
          /\ data # 0 => data \in DOMAIN lists']_vars

\* a complete batch that a plot window has drawn and zoomed
C13_Witness ==
    /\ data # 0
    /\ FullBatch(lists[data])
    /\ ~generation_in_progress
    /\ \E f \in OpenFrames :
           /\ frames[f].list = data
           /\ frames[f].plot_ready
           /\ frames[f].last = "zoom_in"
           /\ frames[f].zoom_level = 125

\* this step is Descriptive Statistics or Plot A/B/C chosen from the menu: a
\* statistics text is shown, a plot window is built, or the menu handler
\* reports that there is no data
StatisticsInvoked ==
    \/ stats_text' # NoText
    \/ plots' # plots
    \/ msgbox' = <<"No data available. Please generate data first.">>

\* the generation threads that are populating the data
Populating == {t \in DOMAIN threads : threads[t].pc \in {"users", "loop", "sensors"}}

\* C16: between interface events the Statistics menu is disabled exactly
\* while generation_in_progress is true (the step that sets the flag disables
\* it, the callback that clears the flag enables it), and no Descriptive
\* Statistics or Plot A/B/C action is taken while a generation thread runs
C16_MenuOffWhileGenerating ==
    /\ [](stats_menu_enabled <=> ~generation_in_progress)
    /\ [][/\ generation_in_progress' # generation_in_progress
             => stats_menu_enabled' # stats_menu_enabled
          /\ StatisticsInvoked
             => ~generation_in_progress /\ LiveThreads = {}]_vars

\* a thread is populating data that already has users, the main window is
\* idle, and neither the statistics nor a plot can be invoked
C16_Witness ==
    /\ generation_in_progress
    /\ ~stats_menu_enabled
    /\ ui.pc = "idle"
    /\ data # 0
    /\ lists[data] # <<>>
    /\ \E t \in Populating : threads[t].pc = "sensors" /\ threads[t].i = 1
    /\ ~ENABLED on_descriptive
    /\ ~ENABLED on_plot_a
    /\ ~ENABLED on_plot_b
    /\ ~ENABLED on_plot_c

\* this step starts a generation: on_generate, no run being in progress,
\* goes on to its confirmation dialog
GenerationStarts == ui.pc = "idle" /\ ui'.pc = "confirm"

\* C21: at most one plot window is open at any time, and it is the one
\* self.current_plot_frame names; opening Plot A, B or C closes the window
\* opened before, and starting a generation closes the open window, so an
\* open plot window holds the list self.data names and no generation thread
\* is changing what it shows
C21_OnePlotWindow ==
    /\ [](/\ Cardinality(OpenFrames) <= 1
          /\ \A f \in OpenFrames :
                 /\ f = current_plot_frame
                 /\ frames[f].list = data
                 /\ ~generation_in_progress
                 /\ LiveThreads = {})
    /\ [][/\ plots' # plots => OpenFrames' = {plots'}
          /\ GenerationStarts => OpenFrames' = {} /\ current_plot_frame' \notin OpenFrames
         ]_vars

\* a second batch is in memory, and of the two plot windows opened on it the
\* first was closed by the opening of the second
C21_Witness ==
    /\ runs = 2
    /\ data = 2
    /\ plots = 2
    /\ frames[1].st = "closed"
    /\ frames[2].st = "open"
    /\ frames[2].plot_ready
    /\ current_plot_frame = 2

====
